---- MODULE Spec2Model ----
(***************************************************************************)
(* A model of src/src/devices.py: the UDisks2 device registry of Portfolio *)
(* (PortfolioDevices) with its records PortfolioDrive, PortfolioDevice and *)
(* PortfolioEncrypted.                                                     *)
(*                                                                         *)
(* The state is the registry's three dicts, the records' fields, and the   *)
(* part of the external service the code reads: the objects the            *)
(* DBusObjectManagerClient holds, with the cached properties of their      *)
(* interface proxies.  Every action is one notification of the service, or *)
(* one call of a public method, handled to its end: GLib dispatches on one *)
(* thread, so handlers never interleave.                                   *)
(***************************************************************************)
EXTENDS Integers, Sequences, FiniteSets, TLC

VARIABLES
    objects,     \* service: object path -> the object's interfaces and cached properties
    _manager,    \* PortfolioDevices._manager: None, or the object manager proxy
    _drives,     \* PortfolioDevices._drives: object path -> PortfolioDrive
    _devices,    \* PortfolioDevices._devices: object path -> PortfolioDevice
    _encrypted,  \* PortfolioDevices._encrypted: object path -> PortfolioEncrypted (a reference)
    connected,   \* object path -> the PortfolioEncrypted records connected to the
                 \* object's Encrypted proxy, in connection order (the referenced records)
    emitted,     \* signals emitted while handling the last notification or call
    raised,      \* exceptions raised while handling the last notification or call
    requested,   \* D-Bus method calls issued by the last call
    returned,    \* value returned by the last call
    last,        \* the notification or call handled last
    pending,     \* the Unlock calls the service has not answered yet
    history      \* object path -> for each connected record, whether the registry
                 \* has emitted encrypted-added and removed for it

vars == <<objects, _manager, _drives, _devices, _encrypted, connected,
          emitted, raised, requested, returned, last, pending, history>>

----------------------------------------------------------------------------
(* Values *)

None == "None"     \* Python's None
Root == "/"        \* the object path UDisks2 reports for "no object"

\* Object paths the service hands out.
Paths == {"/o1", "/o2"}

\* At most this many PortfolioEncrypted records are built for one service object.
MaxConnected == 2

\* At most this many Unlock calls are unanswered at a time.
MaxPending == 1

Interfaces == {"Drive", "Filesystem", "Encrypted"}

\* dict helpers
Put(d, k, v) == [x \in (DOMAIN d) \cup {k} |-> IF x = k THEN v ELSE d[x]]

Del(d, k) == [x \in (DOMAIN d) \ {k} |-> d[x]]

EmptyDict == [x \in {} |-> None]

----------------------------------------------------------------------------
(* Bytes and text.  A byte string is a sequence of byte values; only bytes *)
(* that are valid UTF-8 on their own (ASCII) are reported by the service.  *)

Chr == [b \in {47, 97, 98} |-> CASE b = 47 -> "/" [] b = 97 -> "a" [] b = 98 -> "b"]

RECURSIVE _get_string_from_bytes(_)
\* bytearray(bytes).replace(b"\x00", b"").decode("utf-8")
_get_string_from_bytes(bytes) ==
    IF bytes = <<>> THEN ""
    ELSE (IF Head(bytes) = 0 THEN "" ELSE Chr[Head(bytes)])
            \o _get_string_from_bytes(Tail(bytes))

\* [f(m) for m in MountPoints if m]: the entries that are non-empty as raw bytes, decoded
RECURSIVE DecodedMountPoints(_)
DecodedMountPoints(raw) ==
    IF raw = <<>> THEN <<>>
    ELSE IF Head(raw) # <<>>
         THEN <<_get_string_from_bytes(Head(raw))>> \o DecodedMountPoints(Tail(raw))
         ELSE DecodedMountPoints(Tail(raw))

_get_filesystem_mount_point(object) ==
    LET mount_points == DecodedMountPoints(object.MountPoints)
    IN  IF mount_points # <<>> THEN mount_points[1] ELSE None

----------------------------------------------------------------------------
(* The service's objects.  An object carries a proxy for each interface it *)
(* exposes; a proxy caches the interface's properties.  Block is exposed   *)
(* by every object that exposes Filesystem or Encrypted.  A property of an *)
(* interface the object lacks has its default below and is never read.     *)
(* The set of interfaces of an object is the one it is announced with: the *)
(* code connects to object-added and object-removed only.                  *)

Object(ifaces, drv, blk, mnt, clr) ==
    LET d == IF "Drive" \in ifaces THEN drv
             ELSE [Id |-> "", Ejectable |-> FALSE, CanPowerOff |-> FALSE]
        b == IF ifaces \cap {"Filesystem", "Encrypted"} # {} THEN blk
             ELSE [IdLabel |-> None, IdUUID |-> None, Drive |-> Root]
    IN  [ifaces |-> ifaces,
         Id |-> d.Id, Ejectable |-> d.Ejectable, CanPowerOff |-> d.CanPowerOff,
         IdLabel |-> b.IdLabel, IdUUID |-> b.IdUUID, Drive |-> b.Drive,
         MountPoints |-> IF "Filesystem" \in ifaces THEN mnt ELSE <<>>,
         CleartextDevice |-> IF "Encrypted" \in ifaces THEN clr ELSE Root]

\* object.get_interface(name): the proxy, or None
get_interface(object, name) == IF name \in object.ifaces THEN name ELSE None

\* bool(GLib.Variant) of a cached string property: present and not empty
Truthy(variant) == variant # None /\ variant # ""

----------------------------------------------------------------------------
(* Records *)

PortfolioDrive(object) ==
    [uuid |-> object.Id,
     is_ejectable |-> object.Ejectable,
     can_power_off |-> object.CanPowerOff]

\* _get_block_label trying "IdUUID" before "IdLabel"
_get_block_label_uuid_first(object) ==
    IF Truthy(object.IdUUID) THEN object.IdUUID
    ELSE IF Truthy(object.IdLabel) THEN object.IdLabel
    ELSE None

_get_block_label(object) ==
    IF Truthy(object.IdLabel) THEN object.IdLabel
    ELSE IF Truthy(object.IdUUID) THEN object.IdUUID
    ELSE None

_get_block_uuid(object) ==
    IF Truthy(object.IdUUID) THEN object.IdUUID ELSE None

_get_block_drive(object) == object.Drive

_get_encrypted_cleartext_device(object) == object.CleartextDevice

\* PortfolioDevice.__init__ (with PortfolioBlock.__init__); path is _object's path
PortfolioDevice(path, object) ==
    [cls |-> "PortfolioDevice", path |-> path,
     label |-> _get_block_label(object),
     uuid |-> _get_block_uuid(object),
     drive |-> _get_block_drive(object),
     mount_point |-> _get_filesystem_mount_point(object)]

\* PortfolioEncrypted.__init__; serial tells apart the records built for one object
PortfolioEncrypted(path, serial, object) ==
    [cls |-> "PortfolioEncrypted", path |-> path, serial |-> serial,
     label |-> _get_block_label(object),
     uuid |-> _get_block_uuid(object),
     drive |-> _get_block_drive(object),
     mount_point |-> None,
     cleartext_device |-> _get_encrypted_cleartext_device(object)]

----------------------------------------------------------------------------
(* The program state a handler reads and writes, as one value, so that     *)
(* handlers compose: scan() runs _add_object for each object, and one      *)
(* property change runs the handler of every connected record.             *)
(* A PortfolioEncrypted dropped from _encrypted, by correlation or by a     *)
(* later scan() storing a new record under its key, stays connected to the *)
(* proxy and to _on_encrypted_updated for as long as the service keeps the *)
(* object: connected holds these records.  A PortfolioDevice replaced by a *)
(* later scan() stays connected as well, but the registry connects nothing *)
(* to it, so only the record _devices holds is kept.                       *)

State ==
    [_drives |-> _drives, _devices |-> _devices, _encrypted |-> _encrypted,
     connected |-> connected, emitted |-> <<>>, raised |-> <<>>,
     requested |-> <<>>]

\* whether the registry's map holds the record while a signal's handlers run
Listed(s, arg) ==
    IF "cls" \notin DOMAIN arg THEN FALSE
    ELSE IF arg.cls = "PortfolioDevice" THEN arg.path \in DOMAIN s._devices
    ELSE arg.path \in DOMAIN s._encrypted /\ s._encrypted[arg.path] = arg.serial

\* GObject.emit: sender is the emitting object's class; the handlers of the
\* signal run before emit returns, and listed is what they find
emit(s, sender, signal, arg) ==
    [s EXCEPT !.emitted = Append(@, [sender |-> sender, signal |-> signal, arg |-> arg,
                                     listed |-> Listed(s, arg)])]

raise(s, exception) == [s EXCEPT !.raised = Append(@, exception)]

\* the record self._encrypted[path] refers to
EncryptedAt(s, path) == s.connected[path][s._encrypted[path]]

----------------------------------------------------------------------------
(* PortfolioDevices: the handlers, as functions from the state before to   *)
(* the state after.  An exception ends the handler where it is raised.     *)

\* _on_encrypted_updated without its del
_on_encrypted_updated_keeps_record(s, encrypted) ==
    IF encrypted.cleartext_device \in DOMAIN s._devices
    THEN emit(s, "PortfolioDevices", "removed", encrypted)
    ELSE s

\* devices.py 229-232
_on_encrypted_updated(s, encrypted) ==
    IF encrypted.cleartext_device \in DOMAIN s._devices
    THEN LET t == emit(s, "PortfolioDevices", "removed", encrypted)
         IN  IF encrypted.path \in DOMAIN t._encrypted
             THEN [t EXCEPT !._encrypted = Del(@, encrypted.path)]
             ELSE raise(t, "KeyError")
    ELSE s

\* _add_object emitting encrypted-added whatever the cleartext_device
_add_object_announces_unlocked(s, path, object) ==
    IF get_interface(object, "Drive") # None
    THEN [s EXCEPT !._drives = Put(@, path, PortfolioDrive(object))]
    ELSE IF get_interface(object, "Filesystem") # None
    THEN LET t == [s EXCEPT !._devices = Put(@, path, PortfolioDevice(path, object))]
         IN  emit(t, "PortfolioDevices", "added", t._devices[path])
    ELSE IF get_interface(object, "Encrypted") # None
    THEN LET serial == Len(s.connected[path]) + 1
             encrypted == PortfolioEncrypted(path, serial, object)
             t == [s EXCEPT !.connected[path] = Append(@, encrypted),
                            !._encrypted = Put(@, path, serial)]
         IN  emit(t, "PortfolioDevices", "encrypted-added", encrypted)
    ELSE s

\* _add_object testing the Filesystem interface before the Drive interface
_add_object_filesystem_first(s, path, object) ==
    IF get_interface(object, "Filesystem") # None
    THEN LET t == [s EXCEPT !._devices = Put(@, path, PortfolioDevice(path, object))]
         IN  emit(t, "PortfolioDevices", "added", t._devices[path])
    ELSE IF get_interface(object, "Drive") # None
    THEN [s EXCEPT !._drives = Put(@, path, PortfolioDrive(object))]
    ELSE IF get_interface(object, "Encrypted") # None
    THEN LET serial == Len(s.connected[path]) + 1
             encrypted == PortfolioEncrypted(path, serial, object)
             t == [s EXCEPT !.connected[path] = Append(@, encrypted),
                            !._encrypted = Put(@, path, serial)]
         IN  IF encrypted.cleartext_device = "/"
             THEN emit(t, "PortfolioDevices", "encrypted-added", encrypted)
             ELSE t
    ELSE s

\* devices.py 234-245
_add_object(s, path, object) ==
    IF get_interface(object, "Drive") # None
    THEN [s EXCEPT !._drives = Put(@, path, PortfolioDrive(object))]
    ELSE IF get_interface(object, "Filesystem") # None
    THEN LET t == [s EXCEPT !._devices = Put(@, path, PortfolioDevice(path, object))]
         IN  emit(t, "PortfolioDevices", "added", t._devices[path])
    ELSE IF get_interface(object, "Encrypted") # None
    THEN LET serial == Len(s.connected[path]) + 1
             encrypted == PortfolioEncrypted(path, serial, object)
             t == [s EXCEPT !.connected[path] = Append(@, encrypted),
                            !._encrypted = Put(@, path, serial)]
         IN  IF encrypted.cleartext_device = "/"
             THEN emit(t, "PortfolioDevices", "encrypted-added", encrypted)
             ELSE t
    ELSE s

\* _remove_object treating a drive like the other records: removed, then del
_remove_object_announces_drive(s, path, object) ==
    IF get_interface(object, "Drive") # None
    THEN IF path \in DOMAIN s._drives
         THEN LET t == emit(s, "PortfolioDevices", "removed", s._drives[path])
              IN  [t EXCEPT !._drives = Del(@, path)]
         ELSE raise(s, "KeyError")
    ELSE IF get_interface(object, "Filesystem") # None
    THEN IF path \in DOMAIN s._devices
         THEN LET t == emit(s, "PortfolioDevices", "removed", s._devices[path])
              IN  [t EXCEPT !._devices = Del(@, path)]
         ELSE raise(s, "KeyError")
    ELSE IF get_interface(object, "Encrypted") # None
    THEN IF path \notin DOMAIN s._encrypted
         THEN s
         ELSE LET t == emit(s, "PortfolioDevices", "removed", EncryptedAt(s, path))
              IN  [t EXCEPT !._encrypted = Del(@, path)]
    ELSE s

\* _remove_object deleting the key before it emits removed
_remove_object_deletes_first(s, path, object) ==
    IF get_interface(object, "Drive") # None
    THEN IF path \in DOMAIN s._drives
         THEN [s EXCEPT !._drives = Del(@, path)]
         ELSE raise(s, "KeyError")
    ELSE IF get_interface(object, "Filesystem") # None
    THEN IF path \in DOMAIN s._devices
         THEN LET t == [s EXCEPT !._devices = Del(@, path)]
              IN  emit(t, "PortfolioDevices", "removed", s._devices[path])
         ELSE raise(s, "KeyError")
    ELSE IF get_interface(object, "Encrypted") # None
    THEN IF path \notin DOMAIN s._encrypted
         THEN s
         ELSE LET t == [s EXCEPT !._encrypted = Del(@, path)]
              IN  emit(t, "PortfolioDevices", "removed", EncryptedAt(s, path))
    ELSE s

\* devices.py 247-257
_remove_object(s, path, object) ==
    IF get_interface(object, "Drive") # None
    THEN IF path \in DOMAIN s._drives
         THEN [s EXCEPT !._drives = Del(@, path)]
         ELSE raise(s, "KeyError")
    ELSE IF get_interface(object, "Filesystem") # None
    THEN IF path \in DOMAIN s._devices
         THEN LET t == emit(s, "PortfolioDevices", "removed", s._devices[path])
              IN  [t EXCEPT !._devices = Del(@, path)]
         ELSE raise(s, "KeyError")
    ELSE IF get_interface(object, "Encrypted") # None
    THEN IF path \notin DOMAIN s._encrypted
         THEN s
         ELSE LET t == emit(s, "PortfolioDevices", "removed", EncryptedAt(s, path))
              IN  [t EXCEPT !._encrypted = Del(@, path)]
    ELSE s

\* devices.py 259-263, for an Active registry; order is the order in which
\* get_objects() lists the object paths
RECURSIVE scan(_, _)
scan(s, order) ==
    IF order = <<>> THEN s
    ELSE scan(_add_object(s, Head(order), objects[Head(order)]), Tail(order))

\* can_remove_drive with "or" for "and"
can_remove_drive_either(s, device) ==
    IF device.drive \notin DOMAIN s._drives THEN FALSE
    ELSE LET drive == s._drives[device.drive]
         IN  drive.is_ejectable \/ drive.can_power_off

\* devices.py 265-271
can_remove_drive(s, device) ==
    IF device.drive \notin DOMAIN s._drives THEN FALSE
    ELSE LET drive == s._drives[device.drive]
         IN  drive.is_ejectable /\ drive.can_power_off

\* PortfolioDrive.eject / power_off: the D-Bus call on the drive's proxy
eject(s, path) == [s EXCEPT !.requested = Append(@, [method |-> "Eject", path |-> path])]

power_off(s, path) == [s EXCEPT !.requested = Append(@, [method |-> "PowerOff", path |-> path])]

\* devices.py 273-281
remove_drive(s, device) ==
    IF device.drive \notin DOMAIN s._drives THEN s
    ELSE LET drive == s._drives[device.drive]
             t == IF drive.is_ejectable THEN eject(s, device.drive) ELSE s
         IN  IF ~drive.can_power_off THEN power_off(t, device.drive) ELSE t

----------------------------------------------------------------------------
(* The records' own handlers of g-properties-changed.  properties is the   *)
(* set of names of the changed properties; object holds the new cache.     *)

\* devices.py 125-129, for the PortfolioDevice self._devices[path]
_on_filesystem_changed(s, path, properties, object) ==
    IF "MountPoints" \in properties
    THEN LET t == [s EXCEPT !._devices[path].mount_point =
                                _get_filesystem_mount_point(object)]
         IN  emit(t, "PortfolioDevice", "updated", t._devices[path])
    ELSE s

\* _on_cleartext_device_changed without its test of the changed properties
_on_cleartext_device_changed_any_property(s, path, serial, properties, object) ==
    LET t == [s EXCEPT !.connected[path][serial].cleartext_device =
                           _get_encrypted_cleartext_device(object)]
        u == emit(t, "PortfolioEncrypted", "updated", t.connected[path][serial])
    IN  _on_encrypted_updated(u, u.connected[path][serial])

\* devices.py 162-166, for the record connected[path][serial]; its "updated"
\* runs _on_encrypted_updated, connected in _add_object (line 242)
_on_cleartext_device_changed(s, path, serial, properties, object) ==
    IF "CleartextDevice" \in properties
    THEN LET t == [s EXCEPT !.connected[path][serial].cleartext_device =
                                _get_encrypted_cleartext_device(object)]
             u == emit(t, "PortfolioEncrypted", "updated", t.connected[path][serial])
         IN  _on_encrypted_updated(u, u.connected[path][serial])
    ELSE s

\* the Encrypted proxy's g-properties-changed runs the connected handlers in
\* connection order; an exception in one is logged and the next still runs
RECURSIVE EncryptedPropertiesChangedFrom(_, _, _, _, _)
EncryptedPropertiesChangedFrom(s, path, serial, properties, object) ==
    IF serial > Len(s.connected[path]) THEN s
    ELSE EncryptedPropertiesChangedFrom(
             _on_cleartext_device_changed(s, path, serial, properties, object),
             path, serial + 1, properties, object)

----------------------------------------------------------------------------
(* Actions: one notification of the service, or one call, handled whole.   *)

\* _unlock_finish emitting finished whatever the outcome
_unlock_finish_always_finished(s, encrypted, had_error) ==
    emit(s, "PortfolioEncrypted", "finished", encrypted)

\* devices.py 168-172; had_error: proxy.call_finish raised
_unlock_finish(s, encrypted, had_error) ==
    IF had_error
    THEN emit(s, "PortfolioEncrypted", "failed", encrypted)
    ELSE emit(s, "PortfolioEncrypted", "finished", encrypted)

\* devices.py 174-183: the call is sent, the answer comes later
unlock(s, encrypted, passphrase) ==
    [s EXCEPT !.requested = Append(@, [method |-> "Unlock", path |-> encrypted.path,
                                       passphrase |-> passphrase])]

\* whether log holds the registry's signal for the record serial of path
Told(log, signal, path, serial) ==
    \E i \in DOMAIN log : /\ log[i].sender = "PortfolioDevices"
                          /\ log[i].signal = signal
                          /\ "cls" \in DOMAIN log[i].arg
                          /\ log[i].arg.cls = "PortfolioEncrypted"
                          /\ log[i].arg.path = path
                          /\ log[i].arg.serial = serial

\* history after a step that ends in t; before is history[path] with the
\* records object-removed disconnects still in it
Recorded(t, path) ==
    [i \in 1..Len(t.connected[path]) |->
        LET old == IF i <= Len(history[path]) THEN history[path][i]
                   ELSE [announced |-> FALSE, removed |-> FALSE]
        IN  [announced |-> old.announced \/ Told(t.emitted, "encrypted-added", path, i),
             removed |-> old.removed \/ Told(t.emitted, "removed", path, i)]]

Write(t, value) ==
    /\ _drives' = t._drives
    /\ _devices' = t._devices
    /\ _encrypted' = t._encrypted
    /\ connected' = t.connected
    /\ emitted' = t.emitted
    /\ raised' = t.raised
    /\ requested' = t.requested
    /\ returned' = value
    /\ history' = [p \in Paths |-> Recorded(t, p)]

Commit(t, value) == Write(t, value) /\ UNCHANGED pending

Op(op, path, drive) == [op |-> op, path |-> path, drive |-> drive]

\* the ways get_objects() may list the objects
Orders(S) == {o \in [1..Cardinality(S) -> S] : \A i, j \in DOMAIN o : o[i] = o[j] => i = j}

\* the records a consumer holds and may pass to can_remove_drive / remove_drive
KnownBlocks ==
    {_devices[p] : p \in DOMAIN _devices} \cup {EncryptedAt(State, p) : p \in DOMAIN _encrypted}

\* devices.py 223-224: a new object appears at the service
ObjectAdded(path, object) ==
    /\ path \notin DOMAIN objects
    /\ objects' = Put(objects, path, object)
    /\ IF _manager # None
       THEN Commit(_add_object(State, path, object), None)
       ELSE Commit(State, None)
    /\ last' = Op("object-added", path, None)
    /\ UNCHANGED _manager

\* devices.py 226-227: an object leaves the service; its proxies go with it
ObjectRemoved(path) ==
    /\ path \in DOMAIN objects
    /\ objects' = Del(objects, path)
    /\ IF _manager # None
       THEN Commit([_remove_object(State, path, objects[path])
                       EXCEPT !.connected[path] = <<>>], None)
       ELSE Commit(State, None)
    /\ last' = Op("object-removed", path, None)
    /\ UNCHANGED _manager

\* the service changes MountPoints of the object's Filesystem interface
MountPointsChanged(path, mount_points) ==
    /\ path \in DOMAIN objects
    /\ "Filesystem" \in objects[path].ifaces
    /\ LET object == [objects[path] EXCEPT !.MountPoints = mount_points]
       IN  /\ objects' = [objects EXCEPT ![path] = object]
           /\ IF path \in DOMAIN _devices
              THEN Commit(_on_filesystem_changed(State, path, {"MountPoints"}, object), None)
              ELSE Commit(State, None)
    /\ last' = Op("MountPoints", path, None)
    /\ UNCHANGED _manager

\* the service changes CleartextDevice of the object's Encrypted interface
CleartextDeviceChanged(path, cleartext_device) ==
    /\ path \in DOMAIN objects
    /\ "Encrypted" \in objects[path].ifaces
    /\ LET object == [objects[path] EXCEPT !.CleartextDevice = cleartext_device]
       IN  /\ objects' = [objects EXCEPT ![path] = object]
           /\ Commit(EncryptedPropertiesChangedFrom(State, path, 1, {"CleartextDevice"}, object),
                     None)
    /\ last' = Op("CleartextDevice", path, None)
    /\ UNCHANGED _manager

\* the service changes Size of the object's Filesystem interface, a property
\* no record reads
SizeChanged(path) ==
    /\ path \in DOMAIN objects
    /\ "Filesystem" \in objects[path].ifaces
    /\ IF path \in DOMAIN _devices
       THEN Commit(_on_filesystem_changed(State, path, {"Size"}, objects[path]), None)
       ELSE Commit(State, None)
    /\ last' = Op("Size", path, None)
    /\ UNCHANGED <<objects, _manager>>

\* the service changes HintEncryptionType of the object's Encrypted interface,
\* a property no record reads
HintEncryptionTypeChanged(path) ==
    /\ path \in DOMAIN objects
    /\ "Encrypted" \in objects[path].ifaces
    /\ Commit(EncryptedPropertiesChangedFrom(State, path, 1, {"HintEncryptionType"},
                                             objects[path]), None)
    /\ last' = Op("HintEncryptionType", path, None)
    /\ UNCHANGED <<objects, _manager>>

\* scan() without its test of self._manager
Scan_without_manager_test(order) ==
    /\ order \in Orders(DOMAIN objects)
    /\ \A p \in DOMAIN objects : Len(connected[p]) < MaxConnected
    /\ Commit(scan(State, order), None)
    /\ last' = Op("scan", None, None)
    /\ UNCHANGED <<objects, _manager>>

\* devices.py 259-263
Scan(order) ==
    /\ order \in Orders(DOMAIN objects)
    /\ IF _manager = None
       THEN Commit(State, None)
       ELSE /\ \A p \in DOMAIN objects : Len(connected[p]) < MaxConnected
            /\ Commit(scan(State, order), None)
    /\ last' = Op("scan", None, None)
    /\ UNCHANGED <<objects, _manager>>

\* the records an application can hold: every one built and still connected
EncryptedRecords == {connected[p][i] : <<p, i>> \in
                        {<<p, i>> \in Paths \X (1..MaxConnected) : i <= Len(connected[p])}}

Passphrases == {"secret"}

\* PortfolioEncrypted.unlock(passphrase); call names the asynchronous call
Unlock(encrypted, passphrase, call) ==
    /\ encrypted \in EncryptedRecords
    /\ call \notin {c.call : c \in pending}
    /\ pending' = pending \cup {[call |-> call, encrypted |-> encrypted]}
    /\ Write(unlock(State, encrypted, passphrase), None)
    /\ last' = [op |-> "unlock", path |-> encrypted.path, drive |-> None, call |-> call]
    /\ UNCHANGED <<objects, _manager>>

\* the service answers the call, or the call fails: GLib runs _unlock_finish,
\* also when the object is gone, for the callback holds the record
UnlockFinish(call, had_error) ==
    /\ \E c \in pending :
          /\ c.call = call
          /\ pending' = pending \ {c}
          /\ Write(_unlock_finish(State, c.encrypted, had_error), None)
          /\ last' = [op |-> "_unlock_finish", path |-> c.encrypted.path, drive |-> None,
                      call |-> call, had_error |-> had_error]
    /\ UNCHANGED <<objects, _manager>>

CanRemoveDrive(device) ==
    /\ device \in KnownBlocks
    /\ Commit(State, can_remove_drive(State, device))
    /\ last' = Op("can_remove_drive", device.path, device.drive)
    /\ UNCHANGED <<objects, _manager>>

RemoveDrive(device) ==
    /\ device \in KnownBlocks
    /\ Commit(remove_drive(State, device), None)
    /\ last' = Op("remove_drive", device.path, device.drive)
    /\ UNCHANGED <<objects, _manager>>

----------------------------------------------------------------------------
(* The environment: which objects the service shows, and which values it   *)
(* gives to the properties it changes.                                     *)

DriveProperties == [Id : {"drive"}, Ejectable : BOOLEAN, CanPowerOff : BOOLEAN]

LabelProperties == [IdLabel : {None, "", "data"}, IdUUID : {None, "", "1234"}, Drive : {Root}]

DriveReferences == [IdLabel : {"data"}, IdUUID : {"1234"}, Drive : {Root} \cup Paths]

DefaultDrive == [Id |-> "drive", Ejectable |-> TRUE, CanPowerOff |-> TRUE]

DefaultBlock == [IdLabel |-> "data", IdUUID |-> "1234", Drive |-> Root]

\* b"/a\x00", b"\x00", b"/b\x00": UDisks2 ends a mount point with a null byte
MountPointLists == {<<>>, << <<47, 97, 0>> >>, << <<0>>, <<47, 98, 0>> >>}

CleartextDevices == {Root} \cup Paths

\* Every set of interfaces with every value of the properties that change;
\* every drive; every label and every drive reference of a filesystem.
ServiceObjects ==
    {Object(i, DefaultDrive, DefaultBlock, m, c) :
        i \in SUBSET Interfaces, m \in MountPointLists, c \in CleartextDevices}
    \cup {Object({"Drive"}, d, DefaultBlock, <<>>, Root) : d \in DriveProperties}
    \cup {Object({"Filesystem"}, DefaultDrive, b, m, Root) :
            b \in LabelProperties \cup DriveReferences, m \in MountPointLists}

\* PortfolioDevices.__init__ (devices.py 195-210): the service is reached or not;
\* the objects it holds then are announced only by scan()
Init ==
    /\ objects \in UNION {[S -> ServiceObjects] : S \in SUBSET Paths}
    /\ _manager \in {None, "manager"}
    /\ _drives = EmptyDict
    /\ _devices = EmptyDict
    /\ _encrypted = EmptyDict
    /\ connected = [p \in Paths |-> <<>>]
    /\ emitted = <<>>
    /\ raised = <<>>
    /\ requested = <<>>
    /\ returned = None
    /\ last = Op("__init__", None, None)
    /\ pending = {}
    /\ history = [p \in Paths |-> <<>>]

Next ==
    \/ \E path \in Paths, object \in ServiceObjects : ObjectAdded(path, object)
    \/ \E path \in Paths : ObjectRemoved(path)
    \/ \E path \in Paths, m \in MountPointLists : MountPointsChanged(path, m)
    \/ \E path \in Paths, c \in CleartextDevices : CleartextDeviceChanged(path, c)
    \/ \E path \in Paths : SizeChanged(path)
    \/ \E path \in Paths : HintEncryptionTypeChanged(path)
    \/ \E order \in Orders(DOMAIN objects) : Scan(order)
    \/ \E device \in KnownBlocks : CanRemoveDrive(device)
    \/ \E device \in KnownBlocks : RemoveDrive(device)

Spec == Init /\ [][Next]_vars

\* The registry with the applications' unlock() calls, over objects that are
\* encrypted block devices.  The service answers every call, with a result or
\* with an error, and GLib then runs the call's callback.
EncryptedObjects == {o \in ServiceObjects : o.ifaces = {"Encrypted"}}

InitUnlock ==
    /\ Init
    /\ _manager # None
    /\ \A p \in DOMAIN objects : objects[p] \in EncryptedObjects

NextUnlock ==
    \/ \E path \in Paths, object \in EncryptedObjects : ObjectAdded(path, object)
    \/ \E path \in Paths : ObjectRemoved(path)
    \/ \E path \in Paths, c \in CleartextDevices : CleartextDeviceChanged(path, c)
    \/ \E encrypted \in EncryptedRecords, passphrase \in Passphrases, call \in 1..MaxPending :
          Unlock(encrypted, passphrase, call)
    \/ \E call \in 1..MaxPending, had_error \in BOOLEAN : UnlockFinish(call, had_error)

SpecUnlock ==
    /\ InitUnlock
    /\ [][NextUnlock]_vars
    /\ \A call \in 1..MaxPending : WF_vars(\E had_error \in BOOLEAN : UnlockFinish(call, had_error))

----------------------------------------------------------------------------
(* Vocabulary of the properties *)

Active == _manager # None

\* the registry's own signals among those emitted by the last step
RegistryEvents == SelectSeq(emitted, LAMBDA e : e.sender = "PortfolioDevices")

\* how often the registry emitted signal(arg), log being what a step emitted
Emitted(log, signal, arg) ==
    Cardinality({i \in DOMAIN log : /\ log[i].sender = "PortfolioDevices"
                                    /\ log[i].signal = signal
                                    /\ log[i].arg = arg})

\* how often the registry emitted signal, whatever it carried
EmittedAny(log, signal) ==
    Cardinality({i \in DOMAIN log : /\ log[i].sender = "PortfolioDevices"
                                    /\ log[i].signal = signal})

\* the category object-added and object-removed give an object
Category(object) ==
    CASE "Drive" \in object.ifaces -> "Drive"
      [] "Drive" \notin object.ifaces /\ "Filesystem" \in object.ifaces -> "Filesystem"
      [] object.ifaces = {"Encrypted"} -> "Encrypted"
      [] object.ifaces = {} -> None

\* the keys of the map that holds a category
KeysOf(category) ==
    CASE category = "Drive" -> DOMAIN _drives
      [] category = "Filesystem" -> DOMAIN _devices
      [] category = "Encrypted" -> DOMAIN _encrypted
      [] category = None -> {}

MapsUnchanged == UNCHANGED <<_drives, _devices, _encrypted>>

\* an Active registry handled op for the object at path
Handled(op, path) == Active /\ last'.op = op /\ last'.path = path

----------------------------------------------------------------------------
(* C1 *)

\* C1: after every handled notification, no record of the encrypted map has a
\* cleartext_device that is a key of the device map.
C1_NoUnlockedInEncryptedMap ==
    \A p \in DOMAIN _encrypted :
        EncryptedAt(State, p).cleartext_device \notin DOMAIN _devices

----------------------------------------------------------------------------
(* C2 *)

\* C2: object-added of a Filesystem object whose key is the cleartext_device of a
\* record of the encrypted map emits exactly one removed for that record and
\* drops the record's key from the encrypted map.
C2_FilesystemAddedDropsEncrypted ==
    [][\A p \in Paths : \A q \in DOMAIN _encrypted :
          ( /\ Handled("object-added", p)
            /\ Category(objects'[p]) = "Filesystem"
            /\ EncryptedAt(State, q).cleartext_device = p )
          => ( /\ Emitted(emitted', "removed", EncryptedAt(State, q)) = 1
               /\ q \notin DOMAIN _encrypted' )]_vars

----------------------------------------------------------------------------
(* C3 *)

\* C3: object-removed of an object whose key is not in the map of its category
\* raises nothing, emits nothing and leaves the three maps as they are.
C3_RemoveAbsentIsNoOp ==
    [][\A p \in DOMAIN objects :
          ( /\ Handled("object-removed", p)
            /\ Category(objects[p]) # None
            /\ p \notin KeysOf(Category(objects[p])) )
          => ( raised' = <<>> /\ emitted' = <<>> /\ MapsUnchanged )]_vars

----------------------------------------------------------------------------
(* C4 *)

\* the record the encrypted map holds under path, once the service's new
\* CleartextDevice is written to it
Correlated(path) ==
    [EncryptedAt(State, path) EXCEPT !.cleartext_device = objects'[path].CleartextDevice]

\* C4: a cleartext change of a record of the encrypted map: if the new
\* cleartext_device is a key of the device map, exactly one removed(record) is
\* emitted and the record's key leaves the encrypted map within that handling;
\* if it is not, the registry emits nothing and the three maps stay as they are.
C4_CleartextChangeCorrelates ==
    [][\A p \in DOMAIN _encrypted :
          Handled("CleartextDevice", p)
          => IF objects'[p].CleartextDevice \in DOMAIN _devices
             THEN /\ Emitted(emitted', "removed", Correlated(p)) = 1
                  /\ p \notin DOMAIN _encrypted'
             ELSE /\ RegistryEvents' = <<>>
                  /\ MapsUnchanged]_vars

\* C4 witness: a cleartext change has just dropped a record by correlation
C4_Witness ==
    /\ last.op = "CleartextDevice"
    /\ last.path \notin DOMAIN _encrypted
    /\ \E i \in DOMAIN emitted :
          /\ emitted[i].signal = "removed"
          /\ emitted[i].arg.path = last.path
          /\ emitted[i].arg.cleartext_device \in DOMAIN _devices
    /\ raised = <<>>

----------------------------------------------------------------------------
(* C5 *)

\* C5: object-added of an Encrypted object stores the record under its key and
\* emits one encrypted-added if the record's cleartext_device is "/", none if
\* it is not; it emits neither added nor removed.
C5_EncryptedAdded ==
    \A p \in DOMAIN objects :
        ( Active /\ last.op = "object-added" /\ last.path = p
          /\ Category(objects[p]) = "Encrypted" )
        => /\ p \in DOMAIN _encrypted
           /\ EncryptedAt(State, p).path = p
           /\ EncryptedAt(State, p).cleartext_device = objects[p].CleartextDevice
           /\ EmittedAny(emitted, "encrypted-added") =
                 (IF objects[p].CleartextDevice = "/" THEN 1 ELSE 0)
           /\ Emitted(emitted, "encrypted-added", EncryptedAt(State, p)) = EmittedAny(emitted, "encrypted-added")
           /\ EmittedAny(emitted, "added") = 0
           /\ EmittedAny(emitted, "removed") = 0

\* C5 witness: a locked Encrypted object has just been added and announced
C5_Witness ==
    /\ Active /\ last.op = "object-added"
    /\ last.path \in DOMAIN _encrypted
    /\ EncryptedAt(State, last.path).cleartext_device = "/"
    /\ EmittedAny(emitted, "encrypted-added") = 1

----------------------------------------------------------------------------
(* C6 *)

\* a cached string property that is reported: present and not empty
Reported(value) == value # None /\ value # ""

\* C6: object-added of a Filesystem object emits exactly one added, carrying the
\* record now stored under the object's key; its label is the display label if
\* one is reported, else the UUID if one is reported, else absent.
C6_FilesystemAdded ==
    \A p \in DOMAIN objects :
        ( Active /\ last.op = "object-added" /\ last.path = p
          /\ Category(objects[p]) = "Filesystem" )
        => /\ p \in DOMAIN _devices
           /\ RegistryEvents =
                 <<[sender |-> "PortfolioDevices", signal |-> "added", arg |-> _devices[p],
                    listed |-> TRUE]>>
           /\ _devices[p].path = p
           /\ Reported(objects[p].IdLabel) => _devices[p].label = objects[p].IdLabel
           /\ (~Reported(objects[p].IdLabel) /\ Reported(objects[p].IdUUID))
                 => _devices[p].label = objects[p].IdUUID
           /\ (~Reported(objects[p].IdLabel) /\ ~Reported(objects[p].IdUUID))
                 => _devices[p].label = None

\* C6 witness: a Filesystem object without display label has just been added
\* and its record is labelled with the UUID
C6_Witness ==
    /\ Active /\ last.op = "object-added"
    /\ last.path \in DOMAIN _devices
    /\ ~Reported(objects[last.path].IdLabel)
    /\ _devices[last.path].label = "1234"
    /\ EmittedAny(emitted, "added") = 1

----------------------------------------------------------------------------
(* C7 *)

\* the first entry that is not empty once decoded, None if there is none
RECURSIVE FirstNonEmptyDecoded(_)
FirstNonEmptyDecoded(raw) ==
    IF raw = <<>> THEN None
    ELSE IF _get_string_from_bytes(Head(raw)) # "" THEN _get_string_from_bytes(Head(raw))
    ELSE FirstNonEmptyDecoded(Tail(raw))

\* C7: the resolved mount_point is the first reported entry that is not empty
\* after decoding, and absent if there is none; an entry of null bytes only is
\* skipped, never returned as an empty mount point.
C7_MountPointFirstNonEmptyDecoded ==
    \A p \in DOMAIN _devices :
        _devices[p].mount_point = FirstNonEmptyDecoded(objects[p].MountPoints)

----------------------------------------------------------------------------
(* C8 *)

\* C8: object-added and object-removed of a Drive object emit none of the
\* registry's signals and leave the device and encrypted maps as they are;
\* after object-added the drive is in the drive map under its key, after
\* object-removed of a drive that was there it is not.
C8_DriveAddedRemoved ==
    [][\A p \in Paths :
          /\ ( Handled("object-added", p) /\ Category(objects'[p]) = "Drive" )
             => /\ RegistryEvents' = <<>>
                /\ UNCHANGED <<_devices, _encrypted>>
                /\ p \in DOMAIN _drives'
                /\ _drives'[p].is_ejectable = objects'[p].Ejectable
                /\ _drives'[p].can_power_off = objects'[p].CanPowerOff
          /\ ( Handled("object-removed", p) /\ Category(objects[p]) = "Drive" )
             => /\ RegistryEvents' = <<>>
                /\ UNCHANGED <<_devices, _encrypted>>
                /\ p \in DOMAIN _drives => p \notin DOMAIN _drives']_vars

\* C8 witness: a Drive object has just been added and is in the drive map
C8_Witness ==
    /\ Active /\ last.op = "object-added"
    /\ last.path \in DOMAIN _drives
    /\ emitted = <<>>

----------------------------------------------------------------------------
(* C9 *)

\* C9: can_remove_drive(device) returns true exactly if device.drive is a key of
\* the drive map and that drive is ejectable and can power off; it changes
\* nothing of the registry.
C9_CanRemoveDrive ==
    [][last'.op = "can_remove_drive"
          => /\ returned' = ( /\ last'.drive \in DOMAIN _drives
                              /\ _drives[last'.drive].is_ejectable
                              /\ _drives[last'.drive].can_power_off )
             /\ MapsUnchanged
             /\ UNCHANGED connected
             /\ emitted' = <<>> /\ requested' = <<>> /\ raised' = <<>>]_vars

\* C9 witness: can_remove_drive has just answered true
C9_Witness ==
    /\ last.op = "can_remove_drive"
    /\ returned = TRUE
    /\ last.drive \in DOMAIN _drives

----------------------------------------------------------------------------
(* C10 *)

\* the calls C10 expects of remove_drive for the drive at path
ExpectedRequests(path) ==
    IF path \notin DOMAIN _drives THEN <<>>
    ELSE (IF _drives[path].is_ejectable
          THEN <<[method |-> "Eject", path |-> path]>> ELSE <<>>)
         \o (IF _drives[path].can_power_off
             THEN <<[method |-> "PowerOff", path |-> path]>> ELSE <<>>)

\* C10: remove_drive(device) requests nothing if device.drive is no key of the
\* drive map; else eject() exactly if the drive is ejectable and then
\* power_off() exactly if the drive can power off; the maps stay as they are.
C10_RemoveDrive ==
    [][last'.op = "remove_drive"
          => /\ requested' = ExpectedRequests(last'.drive)
             /\ MapsUnchanged]_vars

----------------------------------------------------------------------------
(* C11 *)

Disabled == _manager = None

\* C11: a registry that could not reach the service stays Disabled: nothing
\* is raised, scan() and the service's notifications change nothing, the three
\* maps stay empty and no signal is ever emitted.
C11_DisabledStaysEmpty ==
    /\ [](Disabled => /\ _drives = EmptyDict /\ _devices = EmptyDict
                      /\ _encrypted = EmptyDict
                      /\ \A p \in Paths : connected[p] = <<>>
                      /\ emitted = <<>> /\ raised = <<>> /\ requested = <<>>)
    /\ [][Disabled => Disabled']_vars

\* C11 witness: scan() has just run on a Disabled registry whose service
\* holds objects
C11_Witness ==
    /\ Disabled
    /\ last.op = "scan"
    /\ DOMAIN objects # {}

----------------------------------------------------------------------------
(* unlock() *)

Answered(call) == last.op = "_unlock_finish" /\ last.call = call

\* C12: unlock(passphrase) returns at once, raising nothing and emitting
\* nothing; each call is answered later, and its answer emits exactly one
\* signal on the record: finished if the service unlocked the device, failed
\* if the call ended in an error.  finished and failed are emitted for nothing
\* else.
C12_UnlockAnswersOnce ==
    /\ [][ /\ last'.op = "unlock" =>
                /\ emitted' = <<>> /\ raised' = <<>> /\ returned' = None
                /\ \E c \in pending' \ pending : pending' = pending \cup {c}
           /\ \A c \in pending \ pending' :
                /\ Answered(c.call)'
                /\ raised' = <<>>
                /\ emitted' = <<[sender |-> "PortfolioEncrypted",
                                 signal |-> IF last'.had_error THEN "failed" ELSE "finished",
                                 arg |-> c.encrypted,
                                 listed |-> Listed(State, c.encrypted)]>>
           /\ (\E i \in DOMAIN emitted' : emitted'[i].signal \in {"finished", "failed"})
                 => pending' # pending /\ pending' \subseteq pending ]_vars
    /\ \A call \in 1..MaxPending : (\E c \in pending : c.call = call) ~> Answered(call)

C12_Witness ==
    /\ Answered(1)
    /\ last.had_error
    /\ \E i \in DOMAIN emitted : emitted[i].signal = "failed"
    /\ last.path \notin DOMAIN objects

----------------------------------------------------------------------------
(* Classification *)

\* the maps whose keys include path
MapsHolding(path) ==
    {m \in Interfaces : path \in KeysOf(m)}

\* C13: object-added classifies an object by the first of Drive, Filesystem,
\* Encrypted it exposes: the key enters that one map and no other, only that
\* category's signal can be emitted, and an object exposing none of the three
\* changes no map and emits nothing.
C13_ClassifiedByFirstMatch ==
    [][\A p \in Paths : Handled("object-added", p) =>
          LET ifaces == objects'[p].ifaces
              first == IF "Drive" \in ifaces THEN {"Drive"}
                       ELSE IF "Filesystem" \in ifaces THEN {"Filesystem"}
                       ELSE IF "Encrypted" \in ifaces THEN {"Encrypted"}
                       ELSE {}
          IN  /\ MapsHolding(p)' = first
              /\ "Drive" \notin first => _drives' = _drives
              /\ "Filesystem" \notin first => /\ _devices' = _devices
                                              /\ EmittedAny(emitted', "added") = 0
              /\ "Encrypted" \notin first => /\ _encrypted' = _encrypted
                                             /\ EmittedAny(emitted', "encrypted-added") = 0
              /\ "Drive" \in first => _drives' = Put(_drives, p, PortfolioDrive(objects'[p]))
              /\ "Filesystem" \in first => /\ p \in DOMAIN _devices'
                                           /\ EmittedAny(emitted', "added") = 1
              /\ "Encrypted" \in first =>
                    EmittedAny(emitted', "encrypted-added") =
                        IF objects'[p].CleartextDevice = Root THEN 1 ELSE 0
              /\ EmittedAny(emitted', "removed") = 0
              /\ first = {} => emitted' = <<>>]_vars

C13_Witness ==
    /\ Active
    /\ last.op = "object-added"
    /\ objects[last.path].ifaces = Interfaces
    /\ last.path \in DOMAIN _drives
    /\ last.path \notin DOMAIN _devices \cup DOMAIN _encrypted
    /\ emitted = <<>>

----------------------------------------------------------------------------
(* Removal *)

\* the record the map of the object's category holds under path
Stored(path) ==
    IF Category(objects[path]) = "Filesystem" THEN _devices[path]
    ELSE EncryptedAt(State, path)

\* C14: object-removed of a Filesystem or Encrypted object whose key is in its
\* map emits exactly one removed, carrying the record stored under the key and
\* emitted while the map still holds it; afterwards the key is gone from that
\* map and the other two maps are as before.
C14_RemovedThenDeleted ==
    [][\A p \in DOMAIN objects :
          ( /\ Handled("object-removed", p)
            /\ Category(objects[p]) \in {"Filesystem", "Encrypted"}
            /\ p \in KeysOf(Category(objects[p])) )
          => ( /\ emitted' = <<[sender |-> "PortfolioDevices", signal |-> "removed",
                                arg |-> Stored(p), listed |-> TRUE]>>
               /\ raised' = <<>>
               /\ _drives' = _drives
               /\ IF Category(objects[p]) = "Filesystem"
                  THEN _devices' = Del(_devices, p) /\ _encrypted' = _encrypted
                  ELSE _encrypted' = Del(_encrypted, p) /\ _devices' = _devices )]_vars

C14_Witness ==
    /\ Active
    /\ last.op = "object-removed"
    /\ Len(emitted) = 1
    /\ emitted[1].signal = "removed"
    /\ emitted[1].arg.cls = "PortfolioEncrypted"
    /\ emitted[1].listed
    /\ last.path \notin DOMAIN _encrypted
    /\ DOMAIN _devices # {}

----------------------------------------------------------------------------
(* Property changes *)

\* how often sender emitted signal(arg), log being what a step emitted
Signalled(log, sender, signal, arg) ==
    Cardinality({i \in DOMAIN log : /\ log[i].sender = sender
                                    /\ log[i].signal = signal
                                    /\ log[i].arg = arg})

\* C15: every record of the device map has as mount point the first non-empty
\* decoded entry of the MountPoints its object reported last (absent if there
\* is none), every connected PortfolioEncrypted has the CleartextDevice its
\* object reported last, and a change of MountPoints or of CleartextDevice
\* emits exactly one updated on each record of the object.
C15_RecordsFollowProperties ==
    /\ [](/\ \A p \in DOMAIN _devices :
                _devices[p].mount_point = FirstNonEmptyDecoded(objects[p].MountPoints)
          /\ \A p \in Paths : \A i \in DOMAIN connected[p] :
                connected[p][i].cleartext_device = objects[p].CleartextDevice)
    /\ [][\A p \in Paths :
            /\ Handled("MountPoints", p) /\ p \in DOMAIN _devices =>
                  /\ p \in DOMAIN _devices'
                  /\ Signalled(emitted', "PortfolioDevice", "updated", _devices'[p]) = 1
                  /\ Len(emitted') = 1
            /\ Handled("CleartextDevice", p) =>
                  /\ Len(connected'[p]) = Len(connected[p])
                  /\ \A i \in DOMAIN connected[p] :
                        Signalled(emitted', "PortfolioEncrypted", "updated", connected'[p][i]) = 1
                  /\ Len(SelectSeq(emitted', LAMBDA e : e.signal = "updated"))
                        = Len(connected[p])]_vars

\* the fields of a PortfolioDevice a change of MountPoints leaves alone
Identity(device) ==
    [path |-> device.path, label |-> device.label, uuid |-> device.uuid,
     drive |-> device.drive]

\* C16: a change of a property other than MountPoints on a filesystem's
\* object, or other than CleartextDevice on an encrypted device's object,
\* changes no record and no map and emits nothing; a change of MountPoints
\* changes only the mount point of the object's record: the maps keep their
\* keys and records, and the registry emits none of its signals.
C16_OtherPropertiesIgnored ==
    [][\A p \in Paths :
          /\ Handled("Size", p) \/ Handled("HintEncryptionType", p) =>
                /\ emitted' = <<>>
                /\ raised' = <<>>
                /\ UNCHANGED <<_drives, _devices, _encrypted, connected>>
          /\ Handled("MountPoints", p) =>
                /\ UNCHANGED <<_drives, _encrypted, connected>>
                /\ DOMAIN _devices' = DOMAIN _devices
                /\ \A q \in DOMAIN _devices :
                      IF q = p THEN Identity(_devices'[q]) = Identity(_devices[q])
                      ELSE _devices'[q] = _devices[q]
                /\ RegistryEvents' = <<>>]_vars

C16_Witness ==
    /\ Active
    /\ last.op = "HintEncryptionType"
    /\ last.path \in DOMAIN _encrypted
    /\ emitted = <<>>

----------------------------------------------------------------------------
(* What a consumer of the registry's signals is told over time *)

\* how often log holds the registry's signal for the record serial of path
ToldTimes(log, signal, path, serial) ==
    Cardinality({i \in DOMAIN log : /\ log[i].sender = "PortfolioDevices"
                                    /\ log[i].signal = signal
                                    /\ log[i].arg.cls = "PortfolioEncrypted"
                                    /\ log[i].arg.path = path
                                    /\ log[i].arg.serial = serial})

\* whether removed was emitted before for the record serial of path
RemovedBefore(path, serial) ==
    serial \in DOMAIN history[path] /\ history[path][serial].removed

\* whether encrypted-added was emitted before for the record serial of path
AnnouncedBefore(path, serial) ==
    serial \in DOMAIN history[path] /\ history[path][serial].announced

\* C17: over its whole life at most one removed is emitted for a
\* PortfolioEncrypted, however often its CleartextDevice changes, and handling
\* a change of CleartextDevice never raises: _on_encrypted_updated never
\* deletes a key the encrypted map does not hold.
C17_AtMostOneRemoved ==
    [][\A p \in Paths :
          /\ \A i \in 1..MaxConnected :
                (IF RemovedBefore(p, i) THEN 1 ELSE 0)
                    + ToldTimes(emitted', "removed", p, i) <= 1
          /\ Handled("CleartextDevice", p) => raised' = <<>>]_vars

\* how often log holds the registry's signal for a PortfolioDevice of key path
ToldOfDevice(log, signal, path) ==
    Cardinality({i \in DOMAIN log : /\ log[i].sender = "PortfolioDevices"
                                    /\ log[i].signal = signal
                                    /\ log[i].arg.cls = "PortfolioDevice"
                                    /\ log[i].arg.path = path})

Listing(map, path) == IF path \in DOMAIN map THEN 1 ELSE 0

\* C18: for every key, the added emitted for it less the removed emitted for
\* its filesystem records is 1 while the device map holds the key and 0 while
\* it does not: every step changes the two by the same amount, so no added is
\* emitted for a key that is already listed.
C18_AddedMatchesDeviceMap ==
    [][\A p \in Paths :
          ToldOfDevice(emitted', "added", p) - ToldOfDevice(emitted', "removed", p)
              = Listing(_devices', p) - Listing(_devices, p)]_vars

\* C19: a removed emitted for a PortfolioEncrypted comes after an
\* encrypted-added emitted for the same record.
C19_RemovedAfterEncryptedAdded ==
    [][\A p \in Paths : \A i \in 1..MaxConnected :
          \A k \in DOMAIN emitted' :
              ToldTimes(<<emitted'[k]>>, "removed", p, i) = 1 =>
                  \/ AnnouncedBefore(p, i)
                  \/ \E j \in 1..(k - 1) :
                        ToldTimes(<<emitted'[j]>>, "encrypted-added", p, i) = 1]_vars

\* C20: after every handled notification, every object the registry classified
\* as Encrypted, which the service still holds and whose CleartextDevice is
\* "/", is a key of the encrypted map.
C20_LockedIsListed ==
    \A p \in DOMAIN objects :
        ( /\ Active
          /\ Category(objects[p]) = "Encrypted"
          /\ connected[p] # <<>>
          /\ objects[p].CleartextDevice = Root )
        => p \in DOMAIN _encrypted
============================================================================
